---------------------------- MODULE Spec2Model ----------------------------
(***************************************************************************)
(* Model of lib/discard_stubs.c: the Lwt job that discards a byte range of *)
(* a file or block device.                                                 *)
(*                                                                         *)
(*   mirage_block_unix_discard_job  creates the job record       (Submit)  *)
(*   worker_discard                 runs on a worker thread; one action    *)
(*                                  per blocking OS call                   *)
(*   result_discard                 turns the job record into the outcome  *)
(*                                                                         *)
(* worker_discard has three bodies selected by the preprocessor:           *)
(* __APPLE__ (fstatfs, then zero-fill head / F_PUNCHHOLE / zero-fill tail),*)
(* __linux__ (fstat, then BLKDISCARD or fallocate) and neither.  The       *)
(* variable platform says which one the build holds.                       *)
(*                                                                         *)
(* Integers: the C operands are 64 bits wide.  +, -, & and ~ commute with  *)
(* reduction modulo 2^64, so the macros are evaluated on two's-complement  *)
(* integers of unbounded width (BitAnd below); the only place where the C  *)
(* arithmetic wraps within the bounds is ALIGNUP(0, a), whose intermediate *)
(* value 0 - 1 is all ones, and there the result is 0 in both.             *)
(***************************************************************************)
EXTENDS Integers, Sequences, FiniteSets, TLC

(* ------------------------------ bounds -------------------------------- *)

\* offsets requested are 0 .. MaxOffset
MaxOffset == 5
\* lengths requested are 0 .. MaxLength
MaxLength == 9
\* block sizes reported by fstatfs are 2^0 .. 2^MaxBlockShift
MaxBlockShift == 2
\* job records that can exist
NJobs == 2

\* sizes the target starts with: empty, ending inside the largest
\* requested range, and holding every requested range
FileSizes == {0, MaxOffset + 1, MaxOffset + MaxLength}

\* one past the highest byte any request can touch
Cap == MaxOffset + MaxLength

JobIds == 1 .. NJobs

(* ----------------------------- constants ------------------------------ *)

\* the errno value worker_discard presets (45 in the <errno.h> of macOS)
ENOTSUP == 45

\* what a failing OS call can leave in errno: EIO, EINVAL or ENOTSUP
Errnos == {5, 22, ENOTSUP}

\* the strings job->error_fn is ever set to
ErrorFns == {"", "unknown", "fstatfs", "pwrite", "fcntl(F_PUNCHHOLE)",
             "fstat", "ioctl", "fallocate"}

\* what reading the uninitialised local error_fn of result_discard may
\* yield: any of the strings above (a stale stack slot) or something else
UninitStrings == ErrorFns \cup {"<garbage>"}

Platforms == {"apple", "linux", "other"}

(* ------------------------ ALIGNUP / ALIGNDOWN ------------------------- *)

\* x & y on two's-complement integers
RECURSIVE BitAnd(_, _)
BitAnd(x, y) ==
  IF x = 0 \/ y = 0 THEN 0
  ELSE IF x = -1 THEN y
  ELSE IF y = -1 THEN x
  ELSE (x % 2) * (y % 2) + 2 * BitAnd(x \div 2, y \div 2)

\* ~x
BitNot(x) == -x - 1

\* #define ALIGNUP(x, a) (((x - 1) & ~(a - 1)) + a)
ALIGNUP(x, a) == BitAnd(x - 1, BitNot(a - 1)) + a

\* ALIGNDOWN with the other macro's rounding
AlignDownRoundsUp(x, a) == ALIGNUP(x, a)

\* #define ALIGNDOWN(x, a) (-(a) & (x))
ALIGNDOWN(x, a) == BitAnd(-a, x)

\* MIN of <sys/param.h>
MIN(a, b) == IF a < b THEN a ELSE b

(* ------------------------------- state -------------------------------- *)

VARIABLES
  platform,   \* which body of worker_discard the build holds
  st_mode,    \* what the handle denotes: "reg" or "blk"
  f_bsize,    \* the block size fstatfs reports for the handle
  file,       \* the target: [size, data], data[i] one of
              \*   "D" original byte, "Z" zero written by pwrite,
              \*   "H" deallocated (reads as zero), "X" beyond the end
  pc,         \* per job: where the job is
  job,        \* per job: struct job_discard
  loc,        \* per job: the locals of worker_discard on __APPLE__
  zero_buf,   \* per job: the zero buffers malloc'ed and not freed
  log,        \* per job: the OS calls made, in order, with their results
  outcome     \* per job: what result_discard delivered

vars == <<platform, st_mode, f_bsize, file, pc, job, loc, zero_buf, log, outcome>>

env == <<platform, st_mode, f_bsize>>

BlockSizes == {2 ^ k : k \in 0 .. MaxBlockShift}

NoJob == [offset |-> 0, length |-> 0, errno_copy |-> 0, error_fn |-> ""]

NoLoc == [delete_alignment |-> 0, fp_offset |-> 0, fp_length |-> 0]

NoOutcome == [tag |-> "none", code |-> 0, fn |-> ""]

NewFile(size) ==
  [size |-> size, data |-> [i \in 0 .. Cap - 1 |-> IF i < size THEN "D" ELSE "X"]]

Init ==
  /\ platform \in Platforms
  /\ st_mode \in {"reg", "blk"}
  /\ f_bsize \in BlockSizes
  /\ file \in {NewFile(s) : s \in FileSizes}
  /\ pc = [j \in JobIds |-> "none"]
  /\ job = [j \in JobIds |-> NoJob]
  /\ loc = [j \in JobIds |-> NoLoc]
  /\ zero_buf = [j \in JobIds |-> {}]
  /\ log = [j \in JobIds |-> <<>>]
  /\ outcome = [j \in JobIds |-> NoOutcome]

(* ------------------------- the operating system ----------------------- *)

\* a call that returns 0 or fails with -1 and an errno
CallResults == {[ret |-> 0, err |-> 0]} \cup {[ret |-> -1, err |-> e] : e \in Errnos}

\* the byte counts pwrite(fd, buf, n, off) can return: all n, or fewer (a
\* short write); a block device cannot grow, so nothing is written past
\* its end
PwriteCounts(f, off, n) ==
  IF n = 0 THEN {0}
  ELSE IF st_mode = "blk" THEN 1 .. MIN(n, f.size - off)
  ELSE 1 .. n

PwriteResults(f, off, n) ==
  {[ret |-> k, err |-> 0] : k \in PwriteCounts(f, off, n)}
    \cup {[ret |-> -1, err |-> e] : e \in Errnos}

\* the target after k zero bytes were written at off: the file grows to
\* hold them, and a gap between the old end and off is a hole
Written(f, off, k) ==
  IF k <= 0 THEN f
  ELSE [size |-> IF off + k > f.size THEN off + k ELSE f.size,
        data |-> [i \in 0 .. Cap - 1 |->
                    IF off <= i /\ i < off + k THEN "Z"
                    ELSE IF f.size <= i /\ i < off THEN "H"
                    ELSE f.data[i]]]

\* the target after [off, off + len) was deallocated: the size stays
Punched(f, off, len) ==
  [f EXCEPT !.data = [i \in 0 .. Cap - 1 |->
                        IF off <= i /\ i < off + len /\ i < f.size THEN "H"
                        ELSE f.data[i]]]

\* an entry of log: the call, the sub-step of the worker that made it, its
\* arguments and what it returned
Call(op, step, off, len, r) ==
  [op |-> op, step |-> step, offset |-> off, length |-> len,
   ret |-> r.ret, err |-> r.err]

(* ------------------- mirage_block_unix_discard_job -------------------- *)

\* LWT_UNIX_INIT_JOB and the assignments of the fields
Submit(j, offset, length) ==
  /\ pc[j] = "none"
  /\ job' = [job EXCEPT ![j] = [offset |-> offset, length |-> length,
                                errno_copy |-> 0, error_fn |-> ""]]
  /\ pc' = [pc EXCEPT ![j] = "queued"]
  /\ UNCHANGED <<env, file, loc, zero_buf, log, outcome>>

(* --------------------------- worker_discard --------------------------- *)

\* an error is recorded and the failed step is tried again
FailRetries(j, err, fn) ==
  /\ job' = [job EXCEPT ![j].errno_copy = err, ![j].error_fn = fn]
  /\ pc' = pc

\* the worker returns with an error recorded in the job
Fail(j, err, fn) ==
  /\ job' = [job EXCEPT ![j].errno_copy = err, ![j].error_fn = fn]
  /\ pc' = [pc EXCEPT ![j] = "returned"]

\* job->errno_copy = 0; return
Finish(j) ==
  /\ job' = [job EXCEPT ![j].errno_copy = 0]
  /\ pc' = [pc EXCEPT ![j] = "returned"]

\* a failed assert ends the process
Abort(j) ==
  /\ pc' = [pc EXCEPT ![j] = "aborted"]
  /\ UNCHANGED <<file, job, loc, zero_buf, log>>

\* the two assignments every build starts with, then the body of the build
FirstCall ==
  IF platform = "apple" THEN "fstatfs"
  ELSE IF platform = "linux" THEN "fstat"
  ELSE "returned"

WorkerStart(j) ==
  /\ pc[j] = "queued"
  /\ job' = [job EXCEPT ![j].errno_copy = ENOTSUP, ![j].error_fn = "unknown"]
  /\ pc' = [pc EXCEPT ![j] = FirstCall]
  /\ UNCHANGED <<env, file, loc, zero_buf, log, outcome>>

\* a return value that is never tested
FstatfsFailedNever(ret) == FALSE

PunchFailedNever(punched) == FALSE

\* the tests of the calls' return values
FstatfsFailed(ret) == ret = -1

HeadWriteFailed(written) == written = -1

PunchFailed(punched) == punched = -1

TailWriteFailed(written) == written = -1

\* __APPLE__: fstatfs, then the locals delete_alignment, fp_offset, fp_length
Fstatfs(j) ==
  /\ pc[j] = "fstatfs"
  /\ \E r \in CallResults :
       /\ log' = [log EXCEPT ![j] = Append(@, Call("fstatfs", "query", 0, 0, r))]
       /\ IF FstatfsFailed(r.ret)
          THEN Fail(j, r.err, "fstatfs") /\ UNCHANGED loc
          ELSE /\ loc' = [loc EXCEPT ![j] = [delete_alignment |-> f_bsize,
                                             fp_offset |-> job[j].offset,
                                             fp_length |-> job[j].length]]
               /\ pc' = [pc EXCEPT ![j] = "head"]
               /\ UNCHANGED job
  /\ UNCHANGED <<env, file, zero_buf, outcome>>

HeadNeeded(aligned_offset, fp_offset) == aligned_offset # fp_offset

\* len_to_zero without the MIN: the whole distance to the boundary
LenToZeroNoMin(fp_length, aligned_offset, fp_offset) == aligned_offset - fp_offset

LenToZero(fp_length, aligned_offset, fp_offset) ==
  MIN(fp_length, aligned_offset - fp_offset)

\* __APPLE__: zero the bytes before the first block boundary
ZeroHead(j) ==
  /\ pc[j] = "head"
  /\ LET a == loc[j].delete_alignment
         fp_offset == loc[j].fp_offset
         fp_length == loc[j].fp_length
         aligned_offset == ALIGNUP(fp_offset, a)
         len_to_zero == LenToZero(fp_length, aligned_offset, fp_offset)
     IN  IF ~HeadNeeded(aligned_offset, fp_offset)
         THEN /\ pc' = [pc EXCEPT ![j] = "punch"]
              /\ UNCHANGED <<file, job, loc, zero_buf, log>>
         ELSE IF ~(len_to_zero < a)
         THEN Abort(j)
         ELSE \E r \in PwriteResults(file, fp_offset, len_to_zero) :
                /\ zero_buf' = [zero_buf EXCEPT ![j] = @ \cup {"head"}]
                /\ log' = [log EXCEPT ![j] =
                             Append(@, Call("pwrite", "head", fp_offset, len_to_zero, r))]
                /\ file' = Written(file, fp_offset, r.ret)
                /\ IF HeadWriteFailed(r.ret)
                   THEN Fail(j, r.err, "pwrite") /\ UNCHANGED loc
                   ELSE /\ loc' = [loc EXCEPT
                                     ![j].fp_offset = fp_offset + len_to_zero,
                                     ![j].fp_length = fp_length - len_to_zero]
                        /\ pc' = [pc EXCEPT ![j] = "punch"]
                        /\ UNCHANGED job
  /\ UNCHANGED <<env, outcome>>

\* the test of line 98 with > for >=
PunchNeededStrict(aligned_length, delete_alignment) == aligned_length > delete_alignment

PunchNeeded(aligned_length, delete_alignment) == aligned_length >= delete_alignment

\* __APPLE__: fcntl(F_PUNCHHOLE) on the whole blocks
PunchHole(j) ==
  /\ pc[j] = "punch"
  /\ LET a == loc[j].delete_alignment
         fp_offset == loc[j].fp_offset
         fp_length == loc[j].fp_length
         aligned_length == ALIGNDOWN(fp_length, a)
     IN  IF ~PunchNeeded(aligned_length, a)
         THEN /\ pc' = [pc EXCEPT ![j] = "tail"]
              /\ UNCHANGED <<file, job, loc, zero_buf, log>>
         ELSE IF fp_offset % a # 0
         THEN Abort(j)
         ELSE \E r \in CallResults :
                /\ log' = [log EXCEPT ![j] =
                             Append(@, Call("fcntl(F_PUNCHHOLE)", "punch",
                                            fp_offset, aligned_length, r))]
                /\ file' = IF r.ret = 0 THEN Punched(file, fp_offset, aligned_length)
                           ELSE file
                /\ IF PunchFailed(r.ret)
                   THEN Fail(j, r.err, "fcntl(F_PUNCHHOLE)") /\ UNCHANGED loc
                   ELSE /\ loc' = [loc EXCEPT
                                     ![j].fp_offset = fp_offset + aligned_length,
                                     ![j].fp_length = fp_length - aligned_length]
                        /\ pc' = [pc EXCEPT ![j] = "tail"]
                        /\ UNCHANGED job
                /\ UNCHANGED zero_buf
  /\ UNCHANGED <<env, outcome>>

TailNeeded(fp_length) == fp_length > 0

\* __APPLE__: zero what is left after the last whole block, then
\* job->errno_copy = 0
ZeroTail(j) ==
  /\ pc[j] = "tail"
  /\ LET a == loc[j].delete_alignment
         fp_offset == loc[j].fp_offset
         fp_length == loc[j].fp_length
     IN  IF ~TailNeeded(fp_length)
         THEN Finish(j) /\ UNCHANGED <<file, loc, zero_buf, log>>
         ELSE IF ~(fp_length < a) \/ fp_offset % a # 0
         THEN Abort(j)
         ELSE \E r \in PwriteResults(file, fp_offset, fp_length) :
                /\ zero_buf' = [zero_buf EXCEPT ![j] = @ \cup {"tail"}]
                /\ log' = [log EXCEPT ![j] =
                             Append(@, Call("pwrite", "tail", fp_offset, fp_length, r))]
                /\ file' = Written(file, fp_offset, r.ret)
                /\ IF TailWriteFailed(r.ret)
                   THEN Fail(j, r.err, "pwrite")
                   ELSE Finish(j)
                /\ UNCHANGED loc
  /\ UNCHANGED <<env, outcome>>

\* The __linux__ body as written does not compile (lines 139 and 146 end
\* in "return" with no semicolon, line 143 names fd for job->fd, and
\* <sys/stat.h>, <sys/ioctl.h> and <linux/fs.h> are not included); it is
\* modelled as it reads with those slips repaired.

S_ISBLK(mode) == mode = "blk"

\* __linux__: fstat, to tell a block device from a file
Fstat(j) ==
  /\ pc[j] = "fstat"
  /\ \E r \in CallResults :
       /\ log' = [log EXCEPT ![j] = Append(@, Call("fstat", "classify", 0, 0, r))]
       /\ IF r.ret = -1
          THEN Fail(j, r.err, "fstat")
          ELSE /\ pc' = [pc EXCEPT ![j] = IF S_ISBLK(st_mode) THEN "ioctl"
                                          ELSE "fallocate"]
               /\ UNCHANGED job
  /\ UNCHANGED <<env, file, loc, zero_buf, outcome>>

\* __linux__, a block device: ioctl(BLKDISCARD) on { offset, length }
BlkDiscard(j) ==
  /\ pc[j] = "ioctl"
  /\ \E r \in CallResults :
       /\ log' = [log EXCEPT ![j] =
                    Append(@, Call("ioctl", "device", job[j].offset, job[j].length, r))]
       /\ file' = IF r.ret = 0 THEN Punched(file, job[j].offset, job[j].length)
                  ELSE file
       /\ IF r.ret # 0
          THEN Fail(j, r.err, "ioctl")
          ELSE Finish(j)
  /\ UNCHANGED <<env, loc, zero_buf, outcome>>

\* __linux__, a file: fallocate(FALLOC_FL_PUNCH_HOLE); when it succeeds the
\* function ends without storing anything in the job
Fallocate(j) ==
  /\ pc[j] = "fallocate"
  /\ \E r \in CallResults :
       /\ log' = [log EXCEPT ![j] =
                    Append(@, Call("fallocate", "punch", job[j].offset, job[j].length, r))]
       /\ file' = IF r.ret = 0 THEN Punched(file, job[j].offset, job[j].length)
                  ELSE file
       /\ IF r.ret = -1
          THEN Fail(j, r.err, "fallocate")
          ELSE /\ pc' = [pc EXCEPT ![j] = "returned"]
               /\ UNCHANGED job
  /\ UNCHANGED <<env, loc, zero_buf, outcome>>

(* --------------------------- result_discard --------------------------- *)

\* the string handed to unix_error: the local error_fn, which is declared
\* and never assigned, so its value is whatever the stack holds
ResultErrorFn(j) == UninitStrings

\* result_discard with lines 163 and 165 swapped: the job is freed before
\* errno_copy is read from it, so the value read is whatever the freed
\* memory holds
ResultReadsFreedJob(j) ==
  /\ pc[j] = "returned"
  /\ \E errno_copy \in {0} \cup Errnos :
       IF errno_copy # 0
       THEN \E error_fn \in ResultErrorFn(j) :
              outcome' = [outcome EXCEPT ![j] =
                            [tag |-> "Failure", code |-> errno_copy, fn |-> error_fn]]
       ELSE outcome' = [outcome EXCEPT ![j] =
                          [tag |-> "Success", code |-> 0, fn |-> ""]]
  /\ pc' = [pc EXCEPT ![j] = "done"]
  /\ UNCHANGED <<env, file, job, loc, zero_buf, log>>

\* errno_copy is read, the job is freed, and unix_error raises when
\* errno_copy is not 0
Result(j) ==
  /\ pc[j] = "returned"
  /\ LET errno_copy == job[j].errno_copy
     IN  IF errno_copy # 0
         THEN \E error_fn \in ResultErrorFn(j) :
                outcome' = [outcome EXCEPT ![j] =
                              [tag |-> "Failure", code |-> errno_copy, fn |-> error_fn]]
         ELSE outcome' = [outcome EXCEPT ![j] =
                            [tag |-> "Success", code |-> 0, fn |-> ""]]
  /\ pc' = [pc EXCEPT ![j] = "done"]
  /\ UNCHANGED <<env, file, job, loc, zero_buf, log>>

(* --------------------------- specifications --------------------------- *)

Offsets == 0 .. MaxOffset

Lengths == 0 .. MaxLength

\* one request on a fresh target
Next ==
  \E j \in {1} :
    \/ \E offset \in Offsets, length \in Lengths : Submit(j, offset, length)
    \/ WorkerStart(j)
    \/ Fstatfs(j)
    \/ ZeroHead(j)
    \/ PunchHole(j)
    \/ ZeroTail(j)
    \/ Fstat(j)
    \/ BlkDiscard(j)
    \/ Fallocate(j)
    \/ Result(j)

Spec == Init /\ [][Next]_vars

\* what the Lwt worker pool and main loop do for a job that was created:
\* run worker_discard to its end, then call result_discard
Run(j) ==
  \/ WorkerStart(j)
  \/ Fstatfs(j)
  \/ ZeroHead(j)
  \/ PunchHole(j)
  \/ ZeroTail(j)
  \/ Fstat(j)
  \/ BlkDiscard(j)
  \/ Fallocate(j)
  \/ Result(j)

\* one request, with every OS call returning and the job scheduled
SpecFair == Spec /\ \A j \in JobIds : WF_vars(Run(j))

\* the caller discards the range of request 1 once more, after request 1
\* was delivered and every OS call of it had succeeded
SubmitAgain(j) ==
  /\ pc[1] = "done"
  /\ \A i \in 1 .. Len(log[1]) : log[1][i].ret # -1
  /\ Submit(j, job[1].offset, job[1].length)

\* the same range discarded twice in sequence, with no writer in between
NextTwice ==
  \/ Next
  \/ SubmitAgain(2)
  \/ Run(2)

SpecTwice == Init /\ [][NextTwice]_vars

\* every positive block size up to the largest one, powers of two or not
AnyBlockSizes == 1 .. 2 ^ MaxBlockShift

InitAnyBlockSize ==
  /\ platform \in Platforms
  /\ st_mode \in {"reg", "blk"}
  /\ f_bsize \in AnyBlockSizes
  /\ file \in {NewFile(s) : s \in FileSizes}
  /\ pc = [j \in JobIds |-> "none"]
  /\ job = [j \in JobIds |-> NoJob]
  /\ loc = [j \in JobIds |-> NoLoc]
  /\ zero_buf = [j \in JobIds |-> {}]
  /\ log = [j \in JobIds |-> <<>>]
  /\ outcome = [j \in JobIds |-> NoOutcome]

\* one request on a target whose filesystem reports any positive block size
SpecAnyBlockSize == InitAnyBlockSize /\ [][Next]_vars

\* the ranges two concurrent requests are drawn from
MaxConcOffset == 2

MaxConcLength == 4

ConcOffsets == 0 .. MaxConcOffset

ConcLengths == 1 .. MaxConcLength

\* [o1, o1 + l1) and [o2, o2 + l2) have a byte in common
Overlap(o1, l1, o2, l2) == o1 < o2 + l2 /\ o2 < o1 + l1

\* a request is created while the other one may be anywhere in its run; the
\* two ranges overlap
SubmitOverlapping(j, offset, length) ==
  /\ \A k \in JobIds \ {j} :
       pc[k] # "none" => Overlap(offset, length, job[k].offset, job[k].length)
  /\ Submit(j, offset, length)

\* the step leaves job j with no failed OS call
NoCallFailed(j) == \A i \in 1 .. Len(log'[j]) : log'[j][i].ret # -1

\* two requests on the same target, their workers on different threads of
\* the pool: the steps of the two interleave call by call; the runs followed
\* are those in which no OS call fails (a pwrite may still be short)
NextConcurrent ==
  \E j \in JobIds :
    \/ \E offset \in ConcOffsets, length \in ConcLengths :
         SubmitOverlapping(j, offset, length)
    \/ WorkerStart(j)
    \/ Fstatfs(j) /\ NoCallFailed(j)
    \/ ZeroHead(j) /\ NoCallFailed(j)
    \/ PunchHole(j) /\ NoCallFailed(j)
    \/ ZeroTail(j) /\ NoCallFailed(j)
    \/ Fstat(j) /\ NoCallFailed(j)
    \/ BlkDiscard(j) /\ NoCallFailed(j)
    \/ Fallocate(j) /\ NoCallFailed(j)
    \/ Result(j)

SpecConcurrent == Init /\ [][NextConcurrent]_vars

\* Within the bounds no value the worker computes is negative or reaches
\* 2^63, so the 64-bit arithmetic of the C code never wraps on a result.
NoWrap ==
  \A j \in JobIds :
    /\ loc[j].delete_alignment >= 0 /\ loc[j].fp_offset >= 0 /\ loc[j].fp_length >= 0
    /\ \A i \in 1 .. Len(log[j]) : log[j][i].offset >= 0 /\ log[j][i].length >= 0

(* ------------------------ vocabulary of the claims -------------------- *)

\* the OS calls that can change the target
MutatingOps == {"pwrite", "fcntl(F_PUNCHHOLE)", "ioctl", "fallocate"}

\* the calls job j made in one sub-step
Calls(j, step) == SelectSeq(log[j], LAMBDA c : c.step = step)

\* the length argument of the call of a sub-step, 0 when it was not made
StepLength(j, step) ==
  IF Calls(j, step) = <<>> THEN 0 ELSE Calls(j, step)[1].length

\* worker_discard is over for job j
Ended(j) == pc[j] \in {"returned", "done", "aborted"}

\* job j runs the alignment-sensitive body and its block-size query succeeded
ExecutorEntered(j) ==
  /\ platform = "apple"
  /\ log[j] # <<>>
  /\ log[j][1].step = "query"
  /\ log[j][1].ret = 0

\* no OS call of job j failed
AllSucceeded(j) == \A i \in 1 .. Len(log[j]) : log[j][i].ret # -1

\* [offset, offset + length) crosses no boundary of a block of bs bytes and
\* is shorter than a block
InOneBlock(offset, length, bs) ==
  /\ length < bs
  /\ length > 0 => offset \div bs = (offset + length - 1) \div bs

(* --------------------------------- C1 --------------------------------- *)

\* C1: a request with length = 0 attempts no positioned write, no
\* hole-punch call and no device-discard call, whatever its offset and
\* whichever of the two bodies that discard runs, and completes with
\* Success (unless the classification or the query, which it may make,
\* fails).
C1_ZeroLengthNoOp ==
  \A j \in JobIds :
    (platform # "other" /\ pc[j] # "none" /\ job[j].length = 0) =>
      /\ \A i \in 1 .. Len(log[j]) : log[j][i].op \notin MutatingOps
      /\ (pc[j] = "done" /\ AllSucceeded(j)) => outcome[j].tag = "Success"

(* --------------------------------- C2 --------------------------------- *)

\* C2: on the alignment-sensitive path, for length > 0 and a power-of-two
\* block size, when every OS call succeeded the calls after the query are
\* the head write, the punch and the tail write, each at most once and in
\* that order; they start at offset, follow one another without gap or
\* overlap and their lengths add up to length; head and tail are shorter
\* than a block; the punch's offset and length are multiples of the block
\* size.
C2_SplitCoversRange ==
  \A j \in JobIds :
    (ExecutorEntered(j) /\ Ended(j) /\ AllSucceeded(j) /\ job[j].length > 0) =>
      LET bs == loc[j].delete_alignment
          h == Calls(j, "head")
          p == Calls(j, "punch")
          t == Calls(j, "tail")
          hl == StepLength(j, "head")
          pl == StepLength(j, "punch")
          tl == StepLength(j, "tail")
      IN  /\ pc[j] # "aborted"
          /\ Len(h) <= 1 /\ Len(p) <= 1 /\ Len(t) <= 1
          /\ log[j] = <<log[j][1]>> \o h \o p \o t
          /\ hl + pl + tl = job[j].length
          /\ hl < bs /\ tl < bs
          /\ h # <<>> => h[1].offset = job[j].offset
          /\ p # <<>> => /\ p[1].offset = job[j].offset + hl
                         /\ p[1].offset % bs = 0
                         /\ p[1].length % bs = 0
          /\ t # <<>> => t[1].offset = job[j].offset + hl + pl

\* a finished request that needed all three: a head, whole blocks, a tail
C2_Witness ==
  \E j \in JobIds :
    /\ ExecutorEntered(j) /\ pc[j] = "done" /\ AllSucceeded(j)
    /\ job[j].length > 0
    /\ Calls(j, "head") # <<>>
    /\ Calls(j, "punch") # <<>>
    /\ Calls(j, "tail") # <<>>

(* --------------------------------- C3 --------------------------------- *)

C5_StopAtFirstFailure ==
  \A j \in JobIds :
    platform = "apple" =>
      \A i \in 1 .. Len(log[j]) :
        log[j][i].ret = -1 =>
          /\ i = Len(log[j])
          /\ pc[j] \in {"returned", "done"}
          /\ job[j].errno_copy = log[j][i].err
          /\ pc[j] = "done" => outcome[j].tag = "Failure"

\* a delivered request whose punch failed after its head was written and
\* before the tail it still had to write
C5_Witness ==
  \E j \in JobIds :
    /\ ExecutorEntered(j) /\ pc[j] = "done"
    /\ Calls(j, "head") # <<>>
    /\ Calls(j, "punch") # <<>> /\ Calls(j, "punch")[1].ret = -1
    /\ (job[j].offset + job[j].length) % loc[j].delete_alignment # 0

(* --------------------------------- C6 --------------------------------- *)

\* C6: a request one of whose calls failed is delivered as Failure with
\* that call's errno and with the error_fn the worker stored in the job.
C6_FailureCarriesCodeAndTag ==
  \A j \in JobIds :
    pc[j] = "done" =>
      \A i \in 1 .. Len(log[j]) :
        log[j][i].ret = -1 =>
          /\ outcome[j].tag = "Failure"
          /\ outcome[j].code = log[j][i].err
          /\ outcome[j].fn = job[j].error_fn

(* --------------------------------- C7 --------------------------------- *)

\* C7: on the direct path (__linux__, a regular file) the request makes
\* exactly one hole-punch call, with (offset, length), and is delivered as
\* Success if and only if that call succeeded.
C7_DirectPunchOutcome ==
  \A j \in JobIds :
    (platform = "linux" /\ ~S_ISBLK(st_mode) /\ pc[j] = "done"
       /\ log[j] # <<>> /\ log[j][1].ret = 0) =>
      LET p == Calls(j, "punch")
      IN  /\ Len(p) = 1
          /\ log[j] = <<log[j][1]>> \o p
          /\ p[1].offset = job[j].offset /\ p[1].length = job[j].length
          /\ outcome[j].tag = "Success" <=> p[1].ret = 0

(* --------------------------------- C8 --------------------------------- *)

\* C8: no step of a discard changes the size of the target.
C8_SizeUnchanged == [][file'.size = file.size]_vars

(* --------------------------------- C9 --------------------------------- *)

\* C9: when the worker has returned, every zero buffer it allocated has
\* been released.
C9_BuffersReleased ==
  \A j \in JobIds : pc[j] \in {"returned", "done"} => zero_buf[j] = {}

(* --------------------------------- C10 -------------------------------- *)

\* C10: when the block-size query fails it is the only call of the request,
\* the job holds the query's errno, the outcome, once delivered, is Failure
\* with that errno, and the target is as it was before the request.
C10_QueryFailureTouchesNothing ==
  \A j \in JobIds :
    (platform = "apple" /\ log[j] # <<>>
       /\ log[j][1].step = "query" /\ log[j][1].ret = -1) =>
      /\ Len(log[j]) = 1
      /\ pc[j] \in {"returned", "done"}
      /\ job[j].errno_copy = log[j][1].err
      /\ pc[j] = "done" => /\ outcome[j].tag = "Failure"
                           /\ outcome[j].code = log[j][1].err
      /\ file \in {NewFile(s) : s \in FileSizes}

\* a delivered request for a range of several bytes whose query failed
C10_Witness ==
  \E j \in JobIds :
    /\ platform = "apple" /\ pc[j] = "done"
    /\ job[j].length > 1
    /\ log[j] # <<>> /\ log[j][1].step = "query" /\ log[j][1].ret = -1

(* --------------------------------- C11 -------------------------------- *)

\* C11: a request on a block device, on a build that can discard, whose
\* classification did not fail makes exactly two calls: the one
\* classification, then one device discard with exactly (offset, length);
\* no block-size query, write or hole punch; it is delivered as Success
\* when the device call succeeded and as Failure with that call's errno
\* otherwise.
C11_BlockDeviceOneDiscard ==
  \A j \in JobIds :
    (platform # "other" /\ S_ISBLK(st_mode) /\ pc[j] = "done"
       /\ \A i \in 1 .. Len(log[j]) :
            log[j][i].step = "classify" => log[j][i].ret = 0) =>
      LET c == Calls(j, "classify")
          d == Calls(j, "device")
      IN  /\ Len(c) = 1 /\ Len(d) = 1
          /\ log[j] = c \o d
          /\ d[1].offset = job[j].offset /\ d[1].length = job[j].length
          /\ d[1].ret = 0 => outcome[j].tag = "Success"
          /\ d[1].ret # 0 => /\ outcome[j].tag = "Failure"
                             /\ outcome[j].code = d[1].err

(* --------------------------------- C12 -------------------------------- *)

\* C12: on a build with no deallocation primitive every request makes no
\* OS call at all and is delivered as Failure with ENOTSUP and with the
\* tag the worker stored for this case.
C12_UnsupportedReported ==
  \A j \in JobIds :
    (platform = "other" /\ pc[j] # "none") =>
      /\ log[j] = <<>>
      /\ file \in {NewFile(s) : s \in FileSizes}
      /\ pc[j] = "done" => /\ outcome[j].tag = "Failure"
                           /\ outcome[j].code = ENOTSUP
                           /\ outcome[j].fn = job[j].error_fn
                           /\ job[j].error_fn = "unknown"

(* --------------------------------- C13 -------------------------------- *)

\* where a job is, in the order it gets there
PcRank(p) ==
  CASE p = "none" -> 0
    [] p = "queued" -> 1
    [] p \in {"fstatfs", "fstat"} -> 2
    [] p \in {"head", "ioctl", "fallocate"} -> 3
    [] p = "punch" -> 4
    [] p = "tail" -> 5
    [] p = "returned" -> 6
    [] p = "done" -> 7
    [] OTHER -> 8

\* a step moves a job forward only; its request is set when it is created
\* and at no other time; its outcome is set by the one step from returned
\* to done; once done nothing of it changes
C13_OneWay ==
  \A j \in JobIds :
    /\ pc'[j] # pc[j] => PcRank(pc'[j]) > PcRank(pc[j])
    /\ (job'[j].offset # job[j].offset \/ job'[j].length # job[j].length)
         => pc[j] = "none"
    /\ outcome'[j] # outcome[j] => pc[j] = "returned" /\ pc'[j] = "done"
    /\ pc[j] = "done" =>
         /\ pc'[j] = "done" /\ job'[j] = job[j]
         /\ log'[j] = log[j] /\ outcome'[j] = outcome[j]

\* a job has an outcome exactly when it is done, and that outcome is the
\* one the errno_copy the worker left in the job calls for
C13_OutcomeOfJob ==
  \A j \in JobIds :
    /\ outcome[j].tag # "none" <=> pc[j] = "done"
    /\ pc[j] = "done" =>
         /\ outcome[j].tag = "Success" <=> job[j].errno_copy = 0
         /\ outcome[j].code = job[j].errno_copy

CallArgs(j) ==
  [i \in 1 .. Len(log[j]) |-> <<log[j][i].op, log[j][i].offset, log[j][i].length>>]

\* both discards of the range were delivered and no call of either failed
BothSucceeded ==
  /\ platform # "other"
  /\ pc[1] = "done" /\ pc[2] = "done"
  /\ job[2].offset = job[1].offset /\ job[2].length = job[1].length
  /\ AllSucceeded(1) /\ AllSucceeded(2)

\* a step in which the second discard makes a call that succeeds leaves the
\* content of the target as the first discard left it
C14_SecondKeepsContent ==
  (pc[1] = "done" /\ log'[2] # log[2] /\ log'[2][Len(log'[2])].ret # -1)
    => file'.data = file.data

\* C14: a range discarded twice in sequence with every OS call succeeding
\* is delivered as Success both times, the second discard makes the calls
\* of the first with the same arguments, and it leaves the content as the
\* first left it.
C14_Idempotent ==
  /\ [](BothSucceeded =>
          /\ outcome[1].tag = "Success" /\ outcome[2].tag = "Success"
          /\ CallArgs(2) = CallArgs(1))
  /\ [][C14_SecondKeepsContent]_vars

(* C15: for every request and every positive block size the filesystem
   reports, a power of two or not, what the executor asserts holds in every
   reachable state: no assert fails, the head write is shorter than a block,
   the punch and the tail write start on a multiple of the block size, and
   the tail write is shorter than a block. *)
C15_AssertsHold ==
  \A j \in JobIds :
    /\ pc[j] # "aborted"
    /\ platform = "apple" =>
         \A i \in 1 .. Len(log[j]) :
           LET c == log[j][i]
           IN  /\ c.step = "head" => c.length < f_bsize
               /\ c.step = "punch" => c.offset % f_bsize = 0
               /\ c.step = "tail" => c.offset % f_bsize = 0 /\ c.length < f_bsize

(* C16: within one request the executor is a linear pipeline: its OS calls
   come in the order block-size query, head write, punch, tail write, each
   at most once, the query first, and a call that failed is the last one
   (nothing is retried, re-entered or reordered). *)
StepRank(step) ==
  CASE step = "query" -> 1
    [] step = "head" -> 2
    [] step = "punch" -> 3
    [] step = "tail" -> 4
    [] OTHER -> 0

C16_LinearPipeline ==
  \A j \in JobIds :
    platform = "apple" =>
      /\ \A i \in 1 .. Len(log[j]) : StepRank(log[j][i].step) >= 1
      /\ log[j] # <<>> => log[j][1].step = "query"
      /\ \A i \in 1 .. Len(log[j]) - 1 :
           /\ StepRank(log[j][i].step) < StepRank(log[j][i + 1].step)
           /\ log[j][i].ret # -1

\* a request that made all four calls
C16_Witness ==
  /\ platform = "apple"
  /\ Len(log[1]) = 4
  /\ log[1][4].step = "tail"

(* C17: in every run of a discard on a regular file, whether it succeeds or
   fails at any sub-step, no write or punch has an argument range reaching
   outside [offset, offset + length), every byte outside that range keeps its
   value and allocation, and every byte inside it is at every moment either
   as it was or zero. *)
InRange(j, i) == job[j].offset <= i /\ i < job[j].offset + job[j].length

C17_ArgsInside ==
  \A i \in 1 .. Len(log[1]) :
    log[1][i].op \in MutatingOps =>
      /\ job[1].offset <= log[1][i].offset
      /\ log[1][i].offset + log[1][i].length <= job[1].offset + job[1].length

C17_StepKeepsFrame ==
  \A i \in 0 .. Cap - 1 :
    IF InRange(1, i)
    THEN file'.data[i] \in {file.data[i], "Z", "H"}
    ELSE file'.data[i] = file.data[i]

C17_OutsideUntouched ==
  /\ [](st_mode = "reg" => C17_ArgsInside)
  /\ [][st_mode = "reg" => C17_StepKeepsFrame]_vars

(* C18: whenever a discard on a regular file is delivered as Success, every
   byte of [offset, offset + length) the file holds reads as zero, also when
   a zero-fill pwrite wrote fewer bytes than it was asked to. *)
C18_SuccessMeansZero ==
  \A j \in {1} :
    (st_mode = "reg" /\ pc[j] = "done" /\ outcome[j].tag = "Success") =>
      \A i \in 0 .. Cap - 1 :
        (InRange(j, i) /\ i < file.size) => file.data[i] \in {"Z", "H"}

(* --------------------------------- C19 -------------------------------- *)

\* the calls, as <<op, offset, length>>, that worker_discard makes for
\* (offset, length) when it runs alone and every call succeeds
AloneCalls(offset, length) ==
  IF platform = "apple"
  THEN LET a == f_bsize
           aligned_offset == ALIGNUP(offset, a)
           head == HeadNeeded(aligned_offset, offset)
           len_to_zero == IF head THEN LenToZero(length, aligned_offset, offset) ELSE 0
           o1 == offset + len_to_zero
           l1 == length - len_to_zero
           aligned_length == ALIGNDOWN(l1, a)
           punch == PunchNeeded(aligned_length, a)
           o2 == IF punch THEN o1 + aligned_length ELSE o1
           l2 == IF punch THEN l1 - aligned_length ELSE l1
       IN  <<<<"fstatfs", 0, 0>>>>
             \o (IF head THEN <<<<"pwrite", offset, len_to_zero>>>> ELSE <<>>)
             \o (IF punch THEN <<<<"fcntl(F_PUNCHHOLE)", o1, aligned_length>>>> ELSE <<>>)
             \o (IF TailNeeded(l2) THEN <<<<"pwrite", o2, l2>>>> ELSE <<>>)
  ELSE IF platform = "linux"
  THEN <<<<"fstat", 0, 0>>,
         <<(IF S_ISBLK(st_mode) THEN "ioctl" ELSE "fallocate"), offset, length>>>>
  ELSE <<>>

\* under Spec and SpecAnyBlockSize a request that ran alone to its end with
\* no failed call and no failed assert made exactly these calls
AloneCallsAreTheCalls ==
  (pc[1] \in {"returned", "done"} /\ AllSucceeded(1))
    => CallArgs(1) = AloneCalls(job[1].offset, job[1].length)

\* both concurrent requests were delivered and no call of either failed
BothDelivered ==
  /\ pc[1] = "done" /\ pc[2] = "done"
  /\ AllSucceeded(1) /\ AllSucceeded(2)

\* C19: two discards running concurrently on the same target with
\* overlapping ranges, every OS call succeeding and no other writer: under
\* every interleaving both are delivered as Success, every byte of the union
\* of the two ranges is zero, every byte outside the union is as it was, and
\* each request makes the calls, with the arguments, it makes when alone.
C19_ConcurrentAsAlone ==
  (platform # "other" /\ BothDelivered) =>
    /\ outcome[1].tag = "Success" /\ outcome[2].tag = "Success"
    /\ \A i \in 0 .. Cap - 1 :
         IF InRange(1, i) \/ InRange(2, i)
         THEN i < file.size => file.data[i] \in {"Z", "H"}
         ELSE file.data[i] \in {"D", "X"}
    /\ \A j \in JobIds : CallArgs(j) = AloneCalls(job[j].offset, job[j].length)

=============================================================================
